---- MODULE Spec2Model ----
(***************************************************************************)
(* Model of pfdirs (src/src/main.rs): the four report_* resolvers, the     *)
(* CoStr owner of OS-allocated strings, and main, which runs them in       *)
(* order.  The operating system is modelled as a table of answers, one per *)
(* (facility, query) pair, that is revealed the first time the program     *)
(* asks and stays the same afterwards, so that a resolver called twice     *)
(* sees an unchanged system.                                               *)
(***************************************************************************)
EXTENDS Integers, Sequences, FiniteSets, TLC

VARIABLES
    os,           \* the operating system's answers (lazily revealed)
    faults,       \* how many revealed answers differ from the nominal one
    stack,        \* names of the active functions, innermost last
    pc,           \* position inside the innermost function
    idx,          \* loop index of the innermost resolver's for-loop
    mainPc,       \* which statement of main() runs next
    view,         \* index of the registry view being reported
    pwstr,        \* pointer held by the live CoStr (0: none)
    decoded,      \* result of CoStr::to_string() while the CoStr is live
    pathOrError,  \* local path_or_error of report_known_folders
    maybePath,    \* local maybe_path of report_known_folders
    heap,         \* per OS allocation: how often it was CoTaskMemFree'd
    curVer,       \* the open RegKey handle (0: none)
    hkeys,        \* per opened key handle: how often it was closed
    out,          \* lines printed by the running call
    result,       \* what the last finished function returned
    calllog,      \* functions entered by the running call, in order
    op,           \* the operation the caller invoked
    hist          \* finished calls: operation, output and result

vars == <<os, faults, stack, pc, idx, mainPc, view, pwstr, decoded, pathOrError,
          maybePath, heap, curVer, hkeys, out, result, calllog, op, hist>>

-----------------------------------------------------------------------------
(* Bounds of the model *)

\* At most this many OS answers differ from the nominal answer.
MaxFaults == 2

-----------------------------------------------------------------------------
(* Declared queries of each resolver *)

EnvNames == <<"ProgramFiles", "ProgramFiles(Arm)", "ProgramFiles(x86)", "ProgramW6432">>

KfSymbols == <<"FOLDERID_ProgramFiles", "FOLDERID_ProgramFilesX64",
               "FOLDERID_ProgramFilesX86", "FOLDERID_UserProgramFiles">>

CsidlSymbols == <<"CSIDL_PROGRAM_FILES", "CSIDL_PROGRAM_FILESX86">>

KeyNames == <<"ProgramFilesDir", "ProgramFilesDir (Arm)", "ProgramFilesDir (x86)",
              "ProgramW6432Dir">>

Views == <<"default view", "KEY_WOW64_32KEY", "KEY_WOW64_64KEY">>

EnvCaption == <<"Relevant environment variables:">>
KfCaption == <<"Relevant known folders:">>
CsidlCaption == <<"Relevant CSIDLs:">>
RegCaption(v) == <<"Relevant registry keys - with", Views[v]>>

-----------------------------------------------------------------------------
(* UTF-16 decoding, as the standard library does it *)

IsSurrogate(u) == u >= 55296 /\ u <= 57343       \* 0xD800..0xDFFF
IsLowSurrogate(u) == u >= 56320 /\ u <= 57343    \* 0xDC00..0xDFFF

\* char::decode_utf16: one item per scalar value or unpaired surrogate.
RECURSIVE DecodeUtf16(_)
DecodeUtf16(v) ==
    IF v = <<>> THEN <<>>
    ELSE LET u == Head(v) IN
         IF ~IsSurrogate(u) THEN <<[ok |-> TRUE, c |-> u]>> \o DecodeUtf16(Tail(v))
         ELSE IF IsLowSurrogate(u) THEN <<[ok |-> FALSE, c |-> u]>> \o DecodeUtf16(Tail(v))
         ELSE IF Len(v) = 1 THEN <<[ok |-> FALSE, c |-> u]>>
         ELSE LET u2 == v[2] IN
              IF ~IsLowSurrogate(u2)
              THEN <<[ok |-> FALSE, c |-> u]>> \o DecodeUtf16(Tail(v))
              ELSE <<[ok |-> TRUE,
                      c |-> 65536 + ((u - 55296) * 1024) + (u2 - 56320)]>>
                   \o DecodeUtf16(Tail(Tail(v)))

\* Variant of StringFromUtf16 that decodes lossily (String::from_utf16_lossy):
\* an unpaired surrogate becomes U+FFFD and decoding never fails.
StringFromUtf16Lossy(v) ==
    LET d == DecodeUtf16(v) IN
    [st |-> "ok", text |-> [k \in 1..Len(d) |-> IF d[k].ok THEN d[k].c ELSE 65533]]

\* String::from_utf16, reached through PWSTR::to_string / PCWSTR::to_string.
StringFromUtf16(v) ==
    LET d == DecodeUtf16(v) IN
    IF \A k \in 1..Len(d) : d[k].ok
    THEN [st |-> "ok", text |-> [k \in 1..Len(d) |-> d[k].c]]
    ELSE [st |-> "err", e |-> [ty |-> "FromUtf16Error"]]

\* OsString::from_wide: WTF-8 keeps an unpaired surrogate as a code point.
OsStringFromWide(v) ==
    LET d == DecodeUtf16(v) IN [k \in 1..Len(d) |-> d[k].c]

\* OsStr::to_str / OsString::into_string: text only when it holds no surrogate.
OsStrToStr(w) ==
    IF \E k \in 1..Len(w) : IsSurrogate(w[k])
    THEN [st |-> "none"]
    ELSE [st |-> "some", text |-> w]

-----------------------------------------------------------------------------
(* Error values *)

\* HRESULT_FROM_WIN32 as an i32: 0x80070000 + code.
HresultFromWin32(code) == code - 2147024896

WinError(hr) == [ty |-> "windows", hr |-> hr]
IoError(code) == [ty |-> "io", os |-> code]

\* impl From<FromUtf16Error> for windows::core::Error: ERROR_NO_UNICODE_TRANSLATION.
WinErrorFromUtf16(e) == WinError(HresultFromWin32(1113))

\* impl From<std::io::Error> for windows::core::Error.
WinErrorFromIo(e) == WinError(HresultFromWin32(e.os))

-----------------------------------------------------------------------------
(* The operating system's answers *)

NotAsked == [st |-> "unasked"]
Absent == [st |-> "absent"]
Opened == [st |-> "ok"]
OkBuf(b) == [st |-> "ok", buf |-> b]
OkText(t) == [st |-> "ok", text |-> t]
Failed(code) == [st |-> "err", code |-> code]

\* Wide-character buffers the OS hands out: plain text, text with a
\* surrogate pair, and a buffer whose surrogates are both unpaired (a low
\* one first, a high one last).
NominalBuf == <<67, 58>>
WideBufs == {NominalBuf, <<67, 55357, 56832>>, <<56832, 58, 55357>>}

\* HRESULTs of a failing shell call: file not found, access denied.
ShellFailures == {Failed(HresultFromWin32(2)), Failed(HresultFromWin32(5))}

\* Win32 codes of a failing registry call: file not found, access denied.
RegFailures == {Failed(2), Failed(5)}

EnvAnswers == {Absent} \cup {OkBuf(b) : b \in WideBufs}
ShellAnswers == ShellFailures \cup {OkBuf(b) : b \in WideBufs}
OpenAnswers == {Opened} \cup RegFailures
ValueAnswers == {OkText(NominalBuf)} \cup RegFailures

\* The answers the OS may give to a query whose recorded answer is cur.
Ask(cur, all, nominal) ==
    IF cur # NotAsked THEN {cur}
    ELSE IF faults < MaxFaults THEN all
    ELSE {nominal}

Cost(cur, a, nominal) == IF cur = NotAsked /\ a # nominal THEN 1 ELSE 0

-----------------------------------------------------------------------------
(* Values the program computes *)

Unit == [st |-> "unit"]
Ok == [st |-> "ok"]
OkString(t) == [st |-> "ok", text |-> t]
Err(e) == [st |-> "err", e |-> e]
NoResult == [st |-> "none"]

\* A printed item: the path itself, or format!("[{e}]") of an error.
PathText(t) == [tag |-> "path", text |-> t]
Bracketed(e) == [tag |-> "bracketed", e |-> e]

\* Result<String, E>::unwrap_or_else(|e| format!("[{e}]"))
UnwrapOrBracket(r) == IF r.st = "ok" THEN PathText(r.text) ELSE Bracketed(r.e)

CaptionLine(c) == [kind |-> "caption", text |-> c]
BlankLine == [kind |-> "blank"]
RowLine(label, item) == [kind |-> "row", label |-> label, item |-> item]

\* std::env::var(name)
EnvVar(answer) ==
    IF answer = Absent THEN Err([ty |-> "VarError", var |-> "NotPresent"])
    ELSE LET w == OsStringFromWide(answer.buf)
             s == OsStrToStr(w)
         IN IF s.st = "some" THEN OkString(s.text)
            ELSE Err([ty |-> "VarError", var |-> "NotUnicode", os |-> w])

\* known_folders::get_known_folder_path(kf).and_then(|p| p.to_str().map(String::from))
LibKnownFolderPath(answer) ==
    IF answer.st = "err" THEN [st |-> "none"]
    ELSE OsStrToStr(OsStringFromWide(answer.buf))

\* `?` on Result<String, FromUtf16Error> inside a function returning windows Error
QuestionUtf16(r) == IF r.st = "ok" THEN r ELSE Err(WinErrorFromUtf16(r.e))

\* try_get_path_from_csidl(csidl)
TryGetPathFromCsidl(answer) ==
    IF answer.st = "err" THEN Err(WinError(answer.code))
    ELSE QuestionUtf16(StringFromUtf16(answer.buf))

\* RegKey::get_value::<String>(key_name)
GetValue(answer) ==
    IF answer.st = "err" THEN Err(IoError(answer.code)) ELSE OkString(answer.text)

-----------------------------------------------------------------------------
(* Control *)

FnEnv == "report_environment_variables"
FnKf == "report_known_folders"
FnGetKf == "get_known_folder_path_or_detailed_error"
FnCsidl == "report_csidl"
FnRegView == "report_registry_view"
FnRegAll == "report_all_registry_views"
FnMain == "main"

Top == IF stack = <<>> THEN "none" ELSE stack[Len(stack)]
Popped == SubSeq(stack, 1, Len(stack) - 1)

At(f, p) == Top = f /\ pc = p

\* Variables only report_known_folders and its helper touch.
kfLocals == <<pwstr, decoded, pathOrError, maybePath, heap>>
\* Variables only the registry resolver touches.
regLocals == <<curVer, hkeys>>
\* Variables only the caller of the operations touches.
callerVars == <<op, hist>>

\* A function calls f: f's frame is pushed and starts at its first statement.
Enter(f) ==
    /\ stack' = Append(stack, f)
    /\ calllog' = Append(calllog, IF f = FnRegView THEN <<f, Views[view']>> ELSE <<f>>)
    /\ pc' = "start"

\* The innermost function returns res to its caller.
Return(res) ==
    /\ stack' = Popped
    /\ result' = res
    /\ pc' = "ret"

Println(lines) == out' = out \o lines

-----------------------------------------------------------------------------
(* report_environment_variables *)

EnvHeader ==
    /\ At(FnEnv, "start")
    /\ Println(<<CaptionLine(EnvCaption), BlankLine>>)
    /\ idx' = 1
    /\ pc' = "loop"
    /\ UNCHANGED <<os, faults, stack, mainPc, view, kfLocals, regLocals,
                   result, calllog, callerVars>>

EnvLookup ==
    /\ At(FnEnv, "loop")
    /\ idx <= Len(EnvNames)
    /\ \E a \in Ask(os.env[idx], EnvAnswers, OkBuf(NominalBuf)) :
          /\ os' = [os EXCEPT !.env[idx] = a]
          /\ faults' = faults + Cost(os.env[idx], a, OkBuf(NominalBuf))
          /\ Println(<<RowLine(EnvNames[idx], UnwrapOrBracket(EnvVar(a)))>>)
    /\ idx' = idx + 1
    /\ UNCHANGED <<stack, pc, mainPc, view, kfLocals, regLocals, result, calllog,
                   callerVars>>

EnvFooter ==
    /\ At(FnEnv, "loop")
    /\ idx > Len(EnvNames)
    /\ Println(<<BlankLine>>)
    /\ Return(Unit)
    /\ UNCHANGED <<os, faults, idx, mainPc, view, kfLocals, regLocals, calllog,
                   callerVars>>

-----------------------------------------------------------------------------
(* CoStr and get_known_folder_path_or_detailed_error *)

\* SHGetKnownFolderPath(&id, KF_FLAG_DEFAULT, None); Ok(pwstr) => CoStr::new(pwstr)
GetKfCall ==
    /\ At(FnGetKf, "start")
    /\ \E a \in Ask(os.kf1[idx], ShellAnswers, OkBuf(NominalBuf)) :
          /\ os' = [os EXCEPT !.kf1[idx] = a]
          /\ faults' = faults + Cost(os.kf1[idx], a, OkBuf(NominalBuf))
          /\ IF a.st = "err"
             THEN /\ stack' = Popped
                  /\ pathOrError' = Err(WinError(a.code))
                  /\ pc' = "secondary"
                  /\ UNCHANGED <<heap, pwstr>>
             ELSE /\ heap' = Append(heap, [buf |-> a.buf, frees |-> 0])
                  /\ pwstr' = Len(heap) + 1
                  /\ pc' = "to_string"
                  /\ UNCHANGED <<stack, pathOrError>>
    /\ UNCHANGED <<idx, mainPc, view, decoded, maybePath, regLocals, out, result,
                   calllog, callerVars>>

\* CoStr::to_string
CoStrToString ==
    /\ At(FnGetKf, "to_string")
    /\ decoded' = StringFromUtf16(heap[pwstr].buf)
    /\ pc' = "drop"
    /\ UNCHANGED <<os, faults, stack, idx, mainPc, view, pwstr, pathOrError,
                   maybePath, heap, regLocals, out, result, calllog, callerVars>>

\* Variant of CoStrDrop that forgets the pointer without freeing it.
CoStrDropLeak ==
    /\ At(FnGetKf, "drop")
    /\ pwstr' = 0
    /\ pc' = "return"
    /\ UNCHANGED <<os, faults, stack, idx, mainPc, view, decoded, pathOrError,
                   maybePath, heap, regLocals, out, result, calllog, callerVars>>

\* impl Drop for CoStr: CoTaskMemFree(self.pwstr)
CoStrDrop ==
    /\ At(FnGetKf, "drop")
    /\ heap' = [heap EXCEPT ![pwstr].frees = @ + 1]
    /\ pwstr' = 0
    /\ pc' = "return"
    /\ UNCHANGED <<os, faults, stack, idx, mainPc, view, decoded, pathOrError,
                   maybePath, regLocals, out, result, calllog, callerVars>>

\* Ok(...to_string()?) is handed back to report_known_folders
GetKfReturn ==
    /\ At(FnGetKf, "return")
    /\ stack' = Popped
    /\ pathOrError' = QuestionUtf16(decoded)
    /\ decoded' = NoResult
    /\ pc' = "secondary"
    /\ UNCHANGED <<os, faults, idx, mainPc, view, pwstr, maybePath, heap, regLocals,
                   out, result, calllog, callerVars>>

-----------------------------------------------------------------------------
(* report_known_folders *)

\* Variant of KfHeader whose loop resumes where the previous call stopped.
KfHeaderKeepsIndex ==
    /\ At(FnKf, "start")
    /\ Println(<<CaptionLine(KfCaption), BlankLine>>)
    /\ pc' = "loop"
    /\ UNCHANGED <<os, faults, stack, idx, mainPc, view, kfLocals, regLocals,
                   result, calllog, callerVars>>

KfHeader ==
    /\ At(FnKf, "start")
    /\ Println(<<CaptionLine(KfCaption), BlankLine>>)
    /\ idx' = 1
    /\ pc' = "loop"
    /\ UNCHANGED <<os, faults, stack, mainPc, view, kfLocals, regLocals,
                   result, calllog, callerVars>>

\* let path_or_error = get_known_folder_path_or_detailed_error(id);
KfPrimary ==
    /\ At(FnKf, "loop")
    /\ idx <= Len(KfSymbols)
    /\ stack' = Append(stack, FnGetKf)
    /\ pc' = "start"
    /\ UNCHANGED <<os, faults, idx, mainPc, view, kfLocals, regLocals, out, result,
                   calllog, callerVars>>

\* let maybe_path = get_known_folder_path(kf).and_then(...);
KfSecondary ==
    /\ At(FnKf, "secondary")
    /\ \E a \in Ask(os.kf2[idx], ShellAnswers, OkBuf(NominalBuf)) :
          /\ os' = [os EXCEPT !.kf2[idx] = a]
          /\ faults' = faults + Cost(os.kf2[idx], a, OkBuf(NominalBuf))
          /\ maybePath' = LibKnownFolderPath(a)
    /\ pc' = "match"
    /\ UNCHANGED <<stack, idx, mainPc, view, pwstr, decoded, pathOrError, heap,
                   regLocals, out, result, calllog, callerVars>>

\* Variant of MatchArm whose first arm tests the two paths with != .
MatchArmNotEqual(mine, lib) ==
    IF mine.st = "ok" /\ lib.st = "some" /\ mine.text # lib.text
    THEN [arm |-> "item", item |-> PathText(mine.text)]
    ELSE IF mine.st = "err" /\ lib.st = "none"
    THEN [arm |-> "item", item |-> Bracketed(mine.e)]
    ELSE [arm |-> "panic"]

\* Variant of MatchArm whose first arm has no guard on the two paths.
MatchArmNoGuard(mine, lib) ==
    IF mine.st = "ok" /\ lib.st = "some"
    THEN [arm |-> "item", item |-> PathText(mine.text)]
    ELSE IF mine.st = "err" /\ lib.st = "none"
    THEN [arm |-> "item", item |-> Bracketed(mine.e)]
    ELSE [arm |-> "panic"]

\* Variant of MatchArm whose second arm prints a fixed text instead of the error.
MatchArmGenericReason(mine, lib) ==
    IF mine.st = "ok" /\ lib.st = "some" /\ mine.text = lib.text
    THEN [arm |-> "item", item |-> PathText(mine.text)]
    ELSE IF mine.st = "err" /\ lib.st = "none"
    THEN [arm |-> "item", item |-> Bracketed([ty |-> "not found"])]
    ELSE [arm |-> "panic"]

\* The three arms of the match on (path_or_error, maybe_path).
MatchArm(mine, lib) ==
    IF mine.st = "ok" /\ lib.st = "some" /\ mine.text = lib.text
    THEN [arm |-> "item", item |-> PathText(mine.text)]
    ELSE IF mine.st = "err" /\ lib.st = "none"
    THEN [arm |-> "item", item |-> Bracketed(mine.e)]
    ELSE [arm |-> "panic"]

KfMatch ==
    /\ At(FnKf, "match")
    /\ LET m == MatchArm(pathOrError, maybePath) IN
       IF m.arm = "panic"
       THEN /\ stack' = <<>>
            /\ result' = [st |-> "panic", mine |-> pathOrError, lib |-> maybePath]
            /\ pc' = "ret"
            /\ UNCHANGED <<out, idx>>
       ELSE /\ Println(<<RowLine(KfSymbols[idx], m.item)>>)
            /\ idx' = idx + 1
            /\ pc' = "loop"
            /\ UNCHANGED <<stack, result>>
    /\ pathOrError' = NoResult
    /\ maybePath' = NoResult
    /\ UNCHANGED <<os, faults, mainPc, view, pwstr, decoded, heap, regLocals,
                   calllog, callerVars>>

KfFooter ==
    /\ At(FnKf, "loop")
    /\ idx > Len(KfSymbols)
    /\ Println(<<BlankLine>>)
    /\ Return(Ok)
    /\ UNCHANGED <<os, faults, idx, mainPc, view, kfLocals, regLocals, calllog,
                   callerVars>>

-----------------------------------------------------------------------------
(* report_csidl *)

CsidlHeader ==
    /\ At(FnCsidl, "start")
    /\ Println(<<CaptionLine(CsidlCaption), BlankLine>>)
    /\ idx' = 1
    /\ pc' = "loop"
    /\ UNCHANGED <<os, faults, stack, mainPc, view, kfLocals, regLocals,
                   result, calllog, callerVars>>

\* Variant of CsidlLookup that returns a lookup's error with `?`.
CsidlLookupPropagates ==
    /\ At(FnCsidl, "loop")
    /\ idx <= Len(CsidlSymbols)
    /\ \E a \in Ask(os.csidl[idx], ShellAnswers, OkBuf(NominalBuf)) :
          /\ os' = [os EXCEPT !.csidl[idx] = a]
          /\ faults' = faults + Cost(os.csidl[idx], a, OkBuf(NominalBuf))
          /\ IF TryGetPathFromCsidl(a).st = "err"
             THEN /\ Return(TryGetPathFromCsidl(a))
                  /\ UNCHANGED <<out, idx>>
             ELSE /\ Println(<<RowLine(CsidlSymbols[idx],
                                       PathText(TryGetPathFromCsidl(a).text))>>)
                  /\ idx' = idx + 1
                  /\ UNCHANGED <<stack, pc, result>>
    /\ UNCHANGED <<mainPc, view, kfLocals, regLocals, calllog, callerVars>>

CsidlLookup ==
    /\ At(FnCsidl, "loop")
    /\ idx <= Len(CsidlSymbols)
    /\ \E a \in Ask(os.csidl[idx], ShellAnswers, OkBuf(NominalBuf)) :
          /\ os' = [os EXCEPT !.csidl[idx] = a]
          /\ faults' = faults + Cost(os.csidl[idx], a, OkBuf(NominalBuf))
          /\ Println(<<RowLine(CsidlSymbols[idx],
                               UnwrapOrBracket(TryGetPathFromCsidl(a)))>>)
    /\ idx' = idx + 1
    /\ UNCHANGED <<stack, pc, mainPc, view, kfLocals, regLocals, result, calllog,
                   callerVars>>

CsidlFooter ==
    /\ At(FnCsidl, "loop")
    /\ idx > Len(CsidlSymbols)
    /\ Println(<<BlankLine>>)
    /\ Return(Ok)
    /\ UNCHANGED <<os, faults, idx, mainPc, view, kfLocals, regLocals, calllog,
                   callerVars>>

-----------------------------------------------------------------------------
(* report_registry_view *)

\* RegKey::predef(HKEY_LOCAL_MACHINE).open_subkey_with_flags(...)?
RegOpen ==
    /\ At(FnRegView, "start")
    /\ \E a \in Ask(os.open[view], OpenAnswers, Opened) :
          /\ os' = [os EXCEPT !.open[view] = a]
          /\ faults' = faults + Cost(os.open[view], a, Opened)
          /\ IF a.st = "err"
             THEN /\ Return(Err(IoError(a.code)))
                  /\ UNCHANGED <<curVer, hkeys>>
             ELSE /\ hkeys' = Append(hkeys, [view |-> view, closes |-> 0])
                  /\ curVer' = Len(hkeys) + 1
                  /\ pc' = "header"
                  /\ UNCHANGED <<stack, result>>
    /\ UNCHANGED <<idx, mainPc, view, kfLocals, out, calllog, callerVars>>

RegHeader ==
    /\ At(FnRegView, "header")
    /\ Println(<<CaptionLine(RegCaption(view)), BlankLine>>)
    /\ idx' = 1
    /\ pc' = "loop"
    /\ UNCHANGED <<os, faults, stack, mainPc, view, kfLocals, regLocals,
                   result, calllog, callerVars>>

\* Variant of RegValue that prints no row for a value it cannot read.
RegValueOmitsFailure ==
    /\ At(FnRegView, "loop")
    /\ idx <= Len(KeyNames)
    /\ \E a \in Ask(os.val[view][idx], ValueAnswers, OkText(NominalBuf)) :
          /\ os' = [os EXCEPT !.val[view][idx] = a]
          /\ faults' = faults + Cost(os.val[view][idx], a, OkText(NominalBuf))
          /\ IF GetValue(a).st = "err"
             THEN UNCHANGED out
             ELSE Println(<<RowLine(KeyNames[idx], PathText(GetValue(a).text))>>)
    /\ idx' = idx + 1
    /\ UNCHANGED <<stack, pc, mainPc, view, kfLocals, regLocals, result, calllog,
                   callerVars>>

RegValue ==
    /\ At(FnRegView, "loop")
    /\ idx <= Len(KeyNames)
    /\ \E a \in Ask(os.val[view][idx], ValueAnswers, OkText(NominalBuf)) :
          /\ os' = [os EXCEPT !.val[view][idx] = a]
          /\ faults' = faults + Cost(os.val[view][idx], a, OkText(NominalBuf))
          /\ Println(<<RowLine(KeyNames[idx], UnwrapOrBracket(GetValue(a)))>>)
    /\ idx' = idx + 1
    /\ UNCHANGED <<stack, pc, mainPc, view, kfLocals, regLocals, result, calllog,
                   callerVars>>

\* Variant of RegFooter that gives up the handle without closing the key.
RegFooterLeak ==
    /\ At(FnRegView, "loop")
    /\ idx > Len(KeyNames)
    /\ Println(<<BlankLine>>)
    /\ curVer' = 0
    /\ Return(Ok)
    /\ UNCHANGED <<os, faults, idx, mainPc, view, kfLocals, hkeys, calllog,
                   callerVars>>

\* println!(); Ok(()) and cur_ver goes out of scope, closing the key
RegFooter ==
    /\ At(FnRegView, "loop")
    /\ idx > Len(KeyNames)
    /\ Println(<<BlankLine>>)
    /\ hkeys' = [hkeys EXCEPT ![curVer].closes = @ + 1]
    /\ curVer' = 0
    /\ Return(Ok)
    /\ UNCHANGED <<os, faults, idx, mainPc, view, kfLocals, calllog, callerVars>>

-----------------------------------------------------------------------------
(* report_all_registry_views *)

\* Variant of RegAllCall that goes on to the next view after a failure.
RegAllCallIgnoringError ==
    /\ \/ At(FnRegAll, "start") /\ view' = 1
       \/ At(FnRegAll, "ret") /\ view < Len(Views) /\ view' = view + 1
    /\ Enter(FnRegView)
    /\ UNCHANGED <<os, faults, idx, mainPc, kfLocals, regLocals, out, result,
                   callerVars>>

\* for (caption, flag_for_view) in views { report_registry_view(...)
RegAllCall ==
    /\ \/ At(FnRegAll, "start") /\ view' = 1
       \/ At(FnRegAll, "ret") /\ result.st # "err" /\ view < Len(Views)
          /\ view' = view + 1
    /\ Enter(FnRegView)
    /\ UNCHANGED <<os, faults, idx, mainPc, kfLocals, regLocals, out, result,
                   callerVars>>

\* ...?: the first key-open failure is returned
RegAllPropagate ==
    /\ At(FnRegAll, "ret")
    /\ result.st = "err"
    /\ Return(result)
    /\ UNCHANGED <<os, faults, idx, mainPc, view, kfLocals, regLocals, out,
                   calllog, callerVars>>

RegAllReturn ==
    /\ At(FnRegAll, "ret")
    /\ result.st # "err"
    /\ view = Len(Views)
    /\ Return(Ok)
    /\ UNCHANGED <<os, faults, idx, mainPc, view, kfLocals, regLocals, out,
                   calllog, callerVars>>

-----------------------------------------------------------------------------
(* main *)

\* Variant of MainBody with two statements exchanged.
MainBodySwapped == <<FnEnv, FnCsidl, FnKf, FnRegAll>>

MainBody == <<FnEnv, FnKf, FnCsidl, FnRegAll>>

MainCall ==
    /\ At(FnMain, "start") \/ (At(FnMain, "ret") /\ result.st # "err")
    /\ mainPc <= Len(MainBody)
    /\ Enter(MainBody[mainPc])
    /\ mainPc' = mainPc + 1
    /\ UNCHANGED <<os, faults, idx, view, kfLocals, regLocals, out, result, callerVars>>

\* `?` in main: an Err is converted to windows::core::Error and returned
MainPropagate ==
    /\ At(FnMain, "ret")
    /\ result.st = "err"
    /\ Return(IF result.e.ty = "io" THEN Err(WinErrorFromIo(result.e)) ELSE result)
    /\ UNCHANGED <<os, faults, idx, mainPc, view, kfLocals, regLocals, out,
                   calllog, callerVars>>

MainReturn ==
    /\ At(FnMain, "ret")
    /\ result.st # "err"
    /\ mainPc > Len(MainBody)
    /\ Return(Ok)
    /\ UNCHANGED <<os, faults, idx, mainPc, view, kfLocals, regLocals, out,
                   calllog, callerVars>>

-----------------------------------------------------------------------------
(* The caller: runs one operation, and may run it again *)

\* How often an operation is called in succession.
MaxCalls == 2

Operations ==
    {[fn |-> f, view |-> 1] : f \in {FnEnv, FnKf, FnCsidl, FnRegAll, FnMain}}
    \cup {[fn |-> FnRegView, view |-> v] : v \in 1..Len(Views)}

Idle == stack = <<>> /\ pc = "idle"
Finished == stack = <<>> /\ pc = "ret"

Call ==
    /\ Idle
    /\ Len(hist) < MaxCalls
    /\ \E o \in Operations :
          /\ hist # <<>> => o = hist[1].op /\ o.fn # FnMain
          /\ op' = o
          /\ view' = o.view
          /\ stack' = <<o.fn>>
          /\ calllog' = <<IF o.fn = FnRegView THEN <<o.fn, Views[o.view]>> ELSE <<o.fn>>>>
    /\ pc' = "start"
    /\ mainPc' = 1
    /\ out' = <<>>
    /\ result' = NoResult
    /\ UNCHANGED <<os, faults, idx, kfLocals, regLocals, hist>>

Done ==
    /\ Finished
    /\ hist' = Append(hist, [op |-> op, out |-> out, result |-> result])
    /\ pc' = "idle"
    /\ UNCHANGED <<os, faults, stack, idx, mainPc, view, kfLocals, regLocals, out,
                   result, calllog, op>>

-----------------------------------------------------------------------------
(* Specification *)

Init ==
    /\ os = [env |-> [k \in 1..Len(EnvNames) |-> NotAsked],
             kf1 |-> [k \in 1..Len(KfSymbols) |-> NotAsked],
             kf2 |-> [k \in 1..Len(KfSymbols) |-> NotAsked],
             csidl |-> [k \in 1..Len(CsidlSymbols) |-> NotAsked],
             open |-> [v \in 1..Len(Views) |-> NotAsked],
             val |-> [v \in 1..Len(Views) |-> [k \in 1..Len(KeyNames) |-> NotAsked]]]
    /\ faults = 0
    /\ stack = <<>>
    /\ pc = "idle"
    /\ idx = 1
    /\ mainPc = 1
    /\ view = 1
    /\ pwstr = 0
    /\ decoded = NoResult
    /\ pathOrError = NoResult
    /\ maybePath = NoResult
    /\ heap = <<>>
    /\ curVer = 0
    /\ hkeys = <<>>
    /\ out = <<>>
    /\ result = NoResult
    /\ calllog = <<>>
    /\ op = [fn |-> "none", view |-> 1]
    /\ hist = <<>>

Next ==
    \/ Call
    \/ Done
    \/ EnvHeader
    \/ EnvLookup
    \/ EnvFooter
    \/ KfHeader
    \/ KfPrimary
    \/ GetKfCall
    \/ CoStrToString
    \/ CoStrDrop
    \/ GetKfReturn
    \/ KfSecondary
    \/ KfMatch
    \/ KfFooter
    \/ CsidlHeader
    \/ CsidlLookup
    \/ CsidlFooter
    \/ RegOpen
    \/ RegHeader
    \/ RegValue
    \/ RegFooter
    \/ RegAllCall
    \/ RegAllPropagate
    \/ RegAllReturn
    \/ MainCall
    \/ MainPropagate
    \/ MainReturn

Spec == Init /\ [][Next]_vars

-----------------------------------------------------------------------------
(* Reading the printed output *)

Captions == {k \in 1..Len(out) : out[k].kind = "caption"}

\* The lines from caption c up to the next caption (empty when c was not printed).
SectionIn(caps, c) ==
    LET at == {k \in caps : out[k].text = c} IN
    IF at = {} THEN <<>>
    ELSE LET k == CHOOSE j \in at : \A i \in at : j <= i
             later == {j \in caps : j > k}
             last == IF later = {} THEN Len(out)
                     ELSE (CHOOSE j \in later : \A i \in later : j <= i) - 1
         IN SubSeq(out, k, last)

Section(c) == SectionIn(Captions, c)

IsRow(l) == l.kind = "row"
RowsOf(sec) == SelectSeq(sec, IsRow)
Rows(c) == RowsOf(Section(c))

\* A whole report: caption, blank line, one row per label in order, blank line.
CompleteSection(sec, c, labels) ==
    /\ Len(sec) = Len(labels) + 3
    /\ sec[1] = CaptionLine(c)
    /\ sec[2] = BlankLine
    /\ \A k \in 1..Len(labels) : IsRow(sec[k + 2]) /\ sec[k + 2].label = labels[k]
    /\ sec[Len(sec)] = BlankLine

Complete(c, labels) == CompleteSection(Section(c), c, labels)

\* A wide buffer that is not valid UTF-16: it holds an unpaired surrogate.
Undecodable(buf) ==
    \E k \in 1..Len(buf) :
        \/ /\ IsLowSurrogate(buf[k])
           /\ (k = 1 \/ ~(IsSurrogate(buf[k - 1]) /\ ~IsLowSurrogate(buf[k - 1])))
        \/ /\ IsSurrogate(buf[k]) /\ ~IsLowSurrogate(buf[k])
           /\ (k = Len(buf) \/ ~IsLowSurrogate(buf[k + 1]))

DecodeError == WinError(HresultFromWin32(1113))

-----------------------------------------------------------------------------
(* Claims about the Known-Folder Resolver *)

KfAgree ==
    /\ pathOrError.st = "ok"
    /\ maybePath.st = "some"
    /\ pathOrError.text = maybePath.text

KfBothFail == pathOrError.st = "err" /\ maybePath.st = "none"

\* The OS hands both strategies the same decodable buffer for identifier k.
KfStubsMatch(k) ==
    /\ os.kf1[k].st = "ok"
    /\ os.kf2[k] = os.kf1[k]
    /\ ~Undecodable(os.kf1[k].buf)

\* C1: when the primary lookup yields path p and the secondary lookup yields
\* the same text, the row printed for that identifier is p itself and the
\* resolver does not halt; and when the two strategies get matching paths for
\* all four identifiers, report_known_folders returns Ok with four rows that
\* hold exactly those paths.
C1_MatchingPathsAreFound ==
    /\ [][(At(FnKf, "match") /\ KfAgree) =>
            /\ out' = Append(out, RowLine(KfSymbols[idx], PathText(pathOrError.text)))
            /\ stack' = stack
            /\ result' = result]_vars
    /\ []((Finished /\ op.fn = FnKf /\ \A k \in 1..Len(KfSymbols) : KfStubsMatch(k)) =>
            /\ result = Ok
            /\ Rows(KfCaption) =
                 [k \in 1..Len(KfSymbols) |->
                    RowLine(KfSymbols[k], PathText(OsStringFromWide(os.kf1[k].buf)))])

\* C1 witness: report_known_folders returned with four found paths, one of
\* them not the nominal path.
C1_Witness ==
    /\ Finished /\ op.fn = FnKf /\ result = Ok
    /\ \A k \in 1..Len(KfSymbols) : KfStubsMatch(k)
    /\ Len(Rows(KfCaption)) = Len(KfSymbols)
    /\ \E k \in 1..Len(KfSymbols) :
          /\ Rows(KfCaption)[k].item.tag = "path"
          /\ Rows(KfCaption)[k].item.text # NominalBuf

\* C2: when exactly one lookup succeeds, or both succeed with different paths,
\* the resolver halts with a panic that carries both values, prints no row for
\* that identifier, and never returns normally or prints anything afterwards.
C2_DivergenceHalts ==
    /\ [][(At(FnKf, "match") /\ ~KfAgree /\ ~KfBothFail) =>
            /\ stack' = <<>>
            /\ result' = [st |-> "panic", mine |-> pathOrError, lib |-> maybePath]
            /\ out' = out]_vars
    /\ [](result.st = "panic" =>
            /\ stack = <<>>
            /\ op.fn \in {FnKf, FnMain}
            /\ ~(result.mine.st = "ok" /\ result.lib.st = "some"
                 /\ result.mine.text = result.lib.text)
            /\ ~(result.mine.st = "err" /\ result.lib.st = "none")
            /\ idx <= Len(KfSymbols)
            /\ Len(Rows(KfCaption)) = idx - 1
            /\ Len(Section(KfCaption)) = idx + 1
            /\ \A k \in 1..Len(Rows(KfCaption)) :
                  Rows(KfCaption)[k].label = KfSymbols[k]
            /\ \A c \in {CsidlCaption} \cup {RegCaption(v) : v \in 1..Len(Views)} :
                  Section(c) = <<>>)

\* C2 witness: halted on two different paths after printing one row.
C2_Witness ==
    /\ result.st = "panic"
    /\ result.mine.st = "ok" /\ result.lib.st = "some"
    /\ result.mine.text # result.lib.text
    /\ Len(Rows(KfCaption)) = 1

\* C3: when both lookups fail, the row printed for that identifier is the
\* bracketed error the primary lookup returned (the OS's own HRESULT when the
\* OS call failed), the resolver does not halt and it moves to the next
\* identifier.
C3_BothFailIsUnavailable ==
    /\ [][(At(FnKf, "match") /\ KfBothFail) =>
            /\ out' = Append(out, RowLine(KfSymbols[idx], Bracketed(pathOrError.e)))
            /\ stack' = stack
            /\ result' = result
            /\ idx' = idx + 1
            /\ pc' = "loop"]_vars
    /\ []((Top = FnKf /\ pc \in {"secondary", "match"} /\ os.kf1[idx].st = "err") =>
            pathOrError = Err(WinError(os.kf1[idx].code)))

\* C3 witness: the first identifier failed both ways with access denied, its
\* row carries that HRESULT, and the resolver is working on the second one.
C3_Witness ==
    /\ Top = FnKf /\ idx = 2
    /\ os.kf1[1] = Failed(HresultFromWin32(5))
    /\ os.kf2[1].st = "err"
    /\ Rows(KfCaption) =
         <<RowLine(KfSymbols[1], Bracketed(WinError(HresultFromWin32(5))))>>

-----------------------------------------------------------------------------
(* Claims about the Owned-String Adapter *)

\* C4: every pointer a CoStr acquires is passed to CoTaskMemFree exactly once:
\* never twice, and never zero times once the primary lookup that acquired it
\* has returned (whatever to_string() returned, and also after a panic); the
\* buffer is still allocated while it is decoded; and a failed OS call
\* allocates and frees nothing.
C4_FreedExactlyOnce ==
    /\ [](\A p \in 1..Len(heap) :
            /\ heap[p].frees <= 1
            /\ heap[p].frees = 0 => (p = pwstr /\ Top = FnGetKf)
            /\ (p = pwstr /\ pc \in {"to_string", "drop"}) => heap[p].frees = 0)
    /\ [](Top # FnGetKf => pwstr = 0)
    /\ [][(At(FnGetKf, "start") /\ os'.kf1[idx].st = "err") =>
            (heap' = heap /\ pwstr' = 0 /\ Top' = FnKf)]_vars

\* C4 witness: the cross-check halted after a pointer whose decoding failed
\* and a pointer whose decoding succeeded were each freed once.
C4_Witness ==
    /\ result.st = "panic"
    /\ \E p, q \in 1..Len(heap) :
          /\ Undecodable(heap[p].buf) /\ heap[p].frees = 1
          /\ ~Undecodable(heap[q].buf) /\ heap[q].frees = 1

-----------------------------------------------------------------------------
(* Claims about the Registry Resolver *)

IsRegViewEntry(e) == e[1] = FnRegView
RegViewLog == SelectSeq(calllog, IsRegViewEntry)

\* View v's key-open was attempted by the running call and failed.
OpenFailedAt(v) ==
    /\ v <= Len(RegViewLog)
    /\ os.open[v].st = "err"
    /\ ~(At(FnRegView, "start") /\ view = v)

\* C5: report_all_registry_views enters the views in the order default view,
\* KEY_WOW64_32KEY, KEY_WOW64_64KEY; once a view's key-open has failed, every
\* earlier view's report is complete, nothing is printed for that view or a
\* later one, no later view is entered or its key opened, and the key-open
\* error is what report_all_registry_views returns.
C5_StopsAtFirstOpenFailure ==
    op.fn \in {FnRegAll, FnMain} =>
      /\ RegViewLog = [k \in 1..Len(RegViewLog) |-> <<FnRegView, Views[k]>>]
      /\ \A v \in 1..Len(Views) : OpenFailedAt(v) =>
            /\ Len(RegViewLog) = v
            /\ \A u \in 1..(v - 1) : Complete(RegCaption(u), KeyNames)
            /\ \A u \in v..Len(Views) : Section(RegCaption(u)) = <<>>
            /\ \A u \in (v + 1)..Len(Views) :
                  /\ os.open[u] = NotAsked
                  /\ \A k \in 1..Len(KeyNames) : os.val[u][k] = NotAsked
            /\ Top \in {FnRegAll, FnMain} => result = Err(IoError(os.open[v].code))
            /\ (stack = <<>> /\ op.fn = FnRegAll) =>
                  result = Err(IoError(os.open[v].code))
            /\ (stack = <<>> /\ op.fn = FnMain) =>
                  result = Err(WinErrorFromIo(IoError(os.open[v].code)))
      /\ (Finished /\ op.fn = FnRegAll /\ result = Ok) =>
            \A v \in 1..Len(Views) : Complete(RegCaption(v), KeyNames)

\* C5 witness: report_all_registry_views returned the error of the failed
\* KEY_WOW64_64KEY open after reporting the two earlier views, one of them
\* with an unavailable value.
C5_Witness ==
    /\ Finished /\ op.fn = FnRegAll
    /\ os.open[3] = Failed(5)
    /\ result = Err(IoError(5))
    /\ Complete(RegCaption(1), KeyNames)
    /\ Complete(RegCaption(2), KeyNames)
    /\ \E k \in 1..Len(KeyNames) : Rows(RegCaption(2))[k].item.tag = "bracketed"

-----------------------------------------------------------------------------
(* Claims about all resolvers *)

\* What each resolver declares: its caption, its labels, and its call entry.
Declared ==
    {[cap |-> EnvCaption, labels |-> EnvNames, entry |-> <<FnEnv>>],
     [cap |-> KfCaption, labels |-> KfSymbols, entry |-> <<FnKf>>],
     [cap |-> CsidlCaption, labels |-> CsidlSymbols, entry |-> <<FnCsidl>>]}
    \cup {[cap |-> RegCaption(v), labels |-> KeyNames, entry |-> <<FnRegView, Views[v]>>] :
            v \in 1..Len(Views)}

Entered(e) == \E k \in 1..Len(calllog) : calllog[k] = e
OnStack(f) == \E k \in 1..Len(stack) : stack[k] = f

\* The resolver of d ran in this call and came back with a report.
ReturnedNormally(d) ==
    /\ Entered(d.entry)
    /\ ~OnStack(d.entry[1])
    /\ d.entry[1] = FnKf => result.st # "panic"
    /\ d.entry[1] = FnRegView =>
          \E v \in 1..Len(Views) : d.entry[2] = Views[v] /\ os.open[v] = Opened

\* C6: the rows a resolver prints are, at every moment, the first rows of its
\* declared list: each label at most once, in declaration order; and a
\* resolver that has returned normally has printed exactly one row for every
\* label it declares, an unavailable one included.
C6_OneEntryPerQuery ==
    LET caps == Captions IN
    \A d \in Declared :
      LET sec == SectionIn(caps, d.cap)
          rows == RowsOf(sec)
      IN
      /\ Cardinality({k \in caps : out[k].text = d.cap}) <= 1
      /\ Len(rows) <= Len(d.labels)
      /\ \A k \in 1..Len(rows) :
            /\ rows[k].label = d.labels[k]
            /\ rows[k].item.tag \in {"path", "bracketed"}
      /\ ReturnedNormally(d) => CompleteSection(sec, d.cap, d.labels)

\* C6 witness: main returned Ok with all six reports complete, an
\* environment variable and a registry value being unavailable.
C6_Witness ==
    /\ Finished /\ op.fn = FnMain /\ result = Ok
    /\ \A d \in Declared : ReturnedNormally(d) /\ Complete(d.cap, d.labels)
    /\ \E k \in 1..Len(EnvNames) : Rows(EnvCaption)[k].item.tag = "bracketed"
    /\ \E k \in 1..Len(KeyNames) : Rows(RegCaption(3))[k].item.tag = "bracketed"

\* The key-open error a hard failure carries.
IsOpenError(r) ==
    \E v \in 1..Len(Views) :
        /\ os.open[v].st = "err"
        /\ r \in {Err(IoError(os.open[v].code)),
                  Err(WinErrorFromIo(IoError(os.open[v].code)))}

\* C7: report_environment_variables and report_csidl always return normally,
\* and so does report_registry_view once its key opened; every failed lookup
\* is a bracketed row carrying the error the lookup gave; and the only other
\* ways a call ends are a key-open error and the known-folder panic.
C7_PerItemFailuresAreData ==
    /\ (Finished /\ op.fn = FnEnv) => result = Unit
    /\ (Finished /\ op.fn = FnCsidl) => result = Ok
    /\ (Finished /\ op.fn = FnRegView /\ os.open[op.view] = Opened) => result = Ok
    /\ (At(FnMain, "ret") /\ mainPc \in {2, 4}) => result \in {Unit, Ok}
    /\ (At(FnRegAll, "ret") /\ os.open[view] = Opened) => result = Ok
    /\ (Finished /\ result \notin {Unit, Ok}) =>
          \/ result.st = "panic" /\ op.fn \in {FnKf, FnMain}
          \/ op.fn \in {FnRegView, FnRegAll, FnMain} /\ IsOpenError(result)
    /\ LET caps == Captions
           envRows == RowsOf(SectionIn(caps, EnvCaption))
           csidlRows == RowsOf(SectionIn(caps, CsidlCaption))
       IN
       /\ \A k \in 1..Len(envRows) :
             /\ os.env[k] = Absent =>
                   envRows[k].item = Bracketed([ty |-> "VarError", var |-> "NotPresent"])
             /\ (os.env[k].st = "ok" /\ Undecodable(os.env[k].buf)) =>
                   /\ envRows[k].item.tag = "bracketed"
                   /\ envRows[k].item.e.var = "NotUnicode"
       /\ \A k \in 1..Len(csidlRows) :
             os.csidl[k].st = "err" =>
                 csidlRows[k].item = Bracketed(WinError(os.csidl[k].code))
       /\ \A v \in 1..Len(Views) :
             LET regRows == RowsOf(SectionIn(caps, RegCaption(v))) IN
             \A k \in 1..Len(regRows) :
                 os.val[v][k].st = "err" =>
                     regRows[k].item = Bracketed(IoError(os.val[v][k].code))

\* C7 witness: report_csidl returned Ok although both lookups failed, one
\* with file-not-found and one with access-denied.
C7_Witness ==
    /\ Finished /\ op.fn = FnCsidl /\ result = Ok
    /\ Rows(CsidlCaption) =
         <<RowLine(CsidlSymbols[1], Bracketed(WinError(HresultFromWin32(2)))),
           RowLine(CsidlSymbols[2], Bracketed(WinError(HresultFromWin32(5))))>>

-----------------------------------------------------------------------------
(* Claims about main *)

\* The calls of a whole run of main, in order.
MainOrder ==
    <<<<FnMain>>, <<FnEnv>>, <<FnKf>>, <<FnCsidl>>, <<FnRegAll>>>>
    \o [v \in 1..Len(Views) |-> <<FnRegView, Views[v]>>]

\* The captions of a whole run of main, in order.
CaptionOrder ==
    <<EnvCaption, KfCaption, CsidlCaption>> \o [v \in 1..Len(Views) |-> RegCaption(v)]

\* Position in MainOrder of the source that prints the k-th caption.
SourceEntry(k) == IF k <= 3 THEN k + 1 ELSE k + 2

LabelsOf(k) ==
    IF k = 1 THEN EnvNames ELSE IF k = 2 THEN KfSymbols
    ELSE IF k = 3 THEN CsidlSymbols ELSE KeyNames

\* C8: in a run of main the sources are entered in the order environment,
\* known folders, CSIDL, registry (default view, KEY_WOW64_32KEY,
\* KEY_WOW64_64KEY), none twice; their captions appear in that order; a
\* source's report is complete when a later source has been entered; and once
\* a source has ended in a hard failure nothing later has been entered.
C8_FixedSourceOrder ==
    op.fn = FnMain =>
      /\ Len(calllog) <= Len(MainOrder)
      /\ calllog = SubSeq(MainOrder, 1, Len(calllog))
      /\ LET printed == SelectSeq(out, LAMBDA l : l.kind = "caption") IN
           /\ Len(printed) <= Len(CaptionOrder)
           /\ \A k \in 1..Len(printed) : printed[k].text = CaptionOrder[k]
      /\ LET caps == Captions IN
           \A k \in 1..Len(CaptionOrder) :
              Len(calllog) > SourceEntry(k) =>
                  CompleteSection(SectionIn(caps, CaptionOrder[k]), CaptionOrder[k],
                                  LabelsOf(k))
      /\ (stack = <<>> /\ result.st = "panic") => calllog = SubSeq(MainOrder, 1, 3)
      /\ (stack = <<>> /\ result.st = "err") =>
            /\ Len(calllog) > 5
            /\ os.open[Len(calllog) - 5].st = "err"
      /\ (stack = <<>> /\ result = Ok) =>
            /\ calllog = MainOrder
            /\ \A k \in 1..Len(CaptionOrder) : Complete(CaptionOrder[k], LabelsOf(k))

\* C8 witness: main returned Ok after entering every source once, in order.
C8_Witness ==
    /\ Finished /\ op.fn = FnMain /\ result = Ok
    /\ calllog = MainOrder
    /\ Cardinality(Captions) = Len(CaptionOrder)
    /\ out[Len(out)] = BlankLine

-----------------------------------------------------------------------------
(* Claims about repeated calls *)

\* C9: an operation called again with the operating system's answers
\* unchanged prints the same lines and ends the same way (the same return
\* value, key-open error or panic) as the call before.
C9_Idempotent ==
    \A i, j \in 1..Len(hist) :
        /\ hist[i].op = hist[j].op
        /\ hist[i].out = hist[j].out
        /\ hist[i].result = hist[j].result

\* C9 witness: report_known_folders was called twice and panicked both times
\* after printing a row.
C9_Witness ==
    /\ Len(hist) = 2
    /\ hist[1].op.fn = FnKf
    /\ hist[2].result.st = "panic"
    /\ Len(hist[2].out) = 3

-----------------------------------------------------------------------------
(* Claims about decode failures *)

BadBuffer(a) == a.st = "ok" /\ Undecodable(a.buf)

\* C10: when the OS known-folder call succeeds with a buffer that is not valid
\* UTF-16, the primary lookup returns the decode error and the secondary
\* lookup, given such a buffer, returns no path; the resolver then prints a
\* bracketed row with the decode error and does not panic on that identifier;
\* and a CSIDL buffer that is not valid UTF-16 gives a bracketed row with the
\* decode error too.
C10_DecodeFailureIsUnavailable ==
    /\ (Top = FnKf /\ pc \in {"secondary", "match"} /\ BadBuffer(os.kf1[idx])) =>
          pathOrError = Err(DecodeError)
    /\ (At(FnKf, "match") /\ BadBuffer(os.kf2[idx])) => maybePath = [st |-> "none"]
    /\ (result.st = "panic" /\ BadBuffer(os.kf1[idx])) => ~BadBuffer(os.kf2[idx])
    /\ LET caps == Captions
           kfRows == RowsOf(SectionIn(caps, KfCaption))
           csidlRows == RowsOf(SectionIn(caps, CsidlCaption))
       IN
       /\ \A k \in 1..Len(kfRows) :
             BadBuffer(os.kf1[k]) =>
                 kfRows[k] = RowLine(KfSymbols[k], Bracketed(DecodeError))
       /\ \A k \in 1..Len(csidlRows) :
             BadBuffer(os.csidl[k]) =>
                 csidlRows[k] = RowLine(CsidlSymbols[k], Bracketed(DecodeError))

\* C10 witness: both strategies got an undecodable buffer for the first
\* identifier, its row carries the decode error, and report_known_folders
\* went on and returned Ok.
C10_Witness ==
    /\ Finished /\ op.fn = FnKf /\ result = Ok
    /\ BadBuffer(os.kf1[1]) /\ BadBuffer(os.kf2[1])
    /\ Rows(KfCaption)[1] = RowLine(KfSymbols[1], Bracketed(DecodeError))
    /\ Len(Rows(KfCaption)) = Len(KfSymbols)

-----------------------------------------------------------------------------
(* Claims about registry key handles *)

OpenHandles == {h \in 1..Len(hkeys) : hkeys[h].closes = 0}

\* C11: a key handle comes only from a successful key-open of its view; it
\* stays open, as the only open handle, exactly while report_registry_view is
\* printing that view's caption and reading its four values, whatever the
\* reads return; it is closed exactly once when that view's report ends; a
\* failed key-open leaves no handle; and no handle is open once
\* report_registry_view, and so report_all_registry_views, has returned,
\* with Ok or with a key-open error.
C11_KeyHandleScoped ==
    /\ \A h \in 1..Len(hkeys) :
          /\ hkeys[h].closes <= 1
          /\ os.open[hkeys[h].view] = Opened
          /\ hkeys[h].closes = 0 => (h = curVer /\ hkeys[h].view = view)
    /\ Cardinality(OpenHandles) <= 1
    /\ (Top = FnRegView /\ pc \in {"header", "loop"}) <=> curVer # 0
    /\ curVer # 0 => (curVer = Len(hkeys) /\ hkeys[curVer].closes = 0)
    /\ ~OnStack(FnRegView) => OpenHandles = {}
    /\ (At(FnRegAll, "ret") \/ Finished) => OpenHandles = {}

\* C11 witness: report_all_registry_views returned the key-open error of the
\* third view; the two handles of the earlier views were each closed once,
\* one of them after a value read had failed.
C11_Witness ==
    /\ Finished /\ op.fn = FnRegAll /\ Len(hist) = 0
    /\ result.st = "err"
    /\ os.open[3].st = "err"
    /\ Len(hkeys) = 2
    /\ \A h \in 1..Len(hkeys) : hkeys[h].closes = 1
    /\ \E k \in 1..Len(KeyNames) : os.val[1][k].st = "err"

====
